---- MODULE Spec2Model ----
(***************************************************************************)
(* The CAPM explainer (src/capm_explained.py, and its earlier version      *)
(* src/capm.py): a Streamlit page with three sliders (rf, rm, beta), a     *)
(* reset button, five lab-preset buttons behind a radio, the evaluator     *)
(* calculate_capm and the 100-point Security Market Line.                  *)
(*                                                                         *)
(* The numbers of the program are Python floats (IEEE-754 binary64) and    *)
(* are modelled bit for bit: a float is a record of sign, significand and  *)
(* exponent, and +, - and * round the exact result to nearest, ties to     *)
(* even, with signed zeros, subnormals, overflow to infinity and NaN.      *)
(* TLC's integers are 32 bits wide, so significands are kept as sequences  *)
(* of 14-bit limbs.                                                        *)
(***************************************************************************)
EXTENDS Integers, Sequences, FiniteSets, TLC

(***************************************************************************)
(* Arbitrary-precision naturals: a sequence of limbs in base 2^14, least   *)
(* significant first; <<>> is 0 and the last limb is never 0.              *)
(***************************************************************************)
LimbBits == 2 * 7
Base == 2 ^ LimbBits

Pow2(n) == 2 ^ n

Max2(a, b) == IF a < b THEN b ELSE a
Min2(a, b) == IF a < b THEN a ELSE b

\* Limb i of a (1 is the least significant), 0 outside a.
Limb(a, i) == IF i >= 1 /\ i <= Len(a) THEN a[i] ELSE 0

\* a without its most significant zero limbs.
BNorm(a) ==
    IF a = <<>> THEN <<>>
    ELSE IF a[Len(a)] # 0 THEN a
    ELSE IF \A i \in 1..Len(a) : a[i] = 0 THEN <<>>
    ELSE SubSeq(a, 1, CHOOSE i \in 1..Len(a) :
                         a[i] # 0 /\ \A j \in (i + 1)..Len(a) : a[j] = 0)

BFromInt(n) ==
    IF n = 0 THEN <<>>
    ELSE IF n < Base THEN <<n>>
    ELSE IF n < Base * Base THEN <<n % Base, n \div Base>>
    ELSE <<n % Base, (n \div Base) % Base, n \div (Base * Base)>>

\* The value of a natural of at most two limbs.
BToInt(a) == Limb(a, 1) + Base * Limb(a, 2)

\* a + b: limb sums, with the carry into limb i found by looking back to the
\* nearest limb that generates one through limbs that propagate it.
BAdd(a, b) ==
    IF a = <<>> THEN b
    ELSE IF b = <<>> THEN a
    ELSE
      LET n == Max2(Len(a), Len(b))
          cin(i) ==
              /\ i > 1
              /\ \/ Limb(a, i - 1) + Limb(b, i - 1) >= Base
                 \/ /\ Limb(a, i - 1) + Limb(b, i - 1) = Base - 1
                    /\ \E j \in 1..(i - 2) :
                          /\ Limb(a, j) + Limb(b, j) >= Base
                          /\ \A k \in (j + 1)..(i - 2) :
                                Limb(a, k) + Limb(b, k) = Base - 1
      IN  BNorm([i \in 1..(n + 1) |->
                   (Limb(a, i) + Limb(b, i) + (IF cin(i) THEN 1 ELSE 0)) % Base]
                \o <<>>)

\* a - b for a >= b, with the borrow into limb i found the same way.
BSub(a, b) ==
    IF b = <<>> THEN a
    ELSE
      LET bin(i) ==
              /\ i > 1
              /\ \/ Limb(a, i - 1) < Limb(b, i - 1)
                 \/ /\ Limb(a, i - 1) = Limb(b, i - 1)
                    /\ \E j \in 1..(i - 2) :
                          /\ Limb(a, j) < Limb(b, j)
                          /\ \A k \in (j + 1)..(i - 2) : Limb(a, k) = Limb(b, k)
      IN  BNorm([i \in 1..Len(a) |->
                   (Limb(a, i) - Limb(b, i) - (IF bin(i) THEN 1 ELSE 0) + Base) % Base]
                \o <<>>)

\* -1, 0, 1 as a < b, a = b, a > b.
BCmp(a, b) ==
    IF Len(a) < Len(b) THEN -1
    ELSE IF Len(a) > Len(b) THEN 1
    ELSE IF a = b THEN 0
    ELSE LET i == CHOOSE i \in 1..Len(a) :
                     a[i] # b[i] /\ \A j \in (i + 1)..Len(a) : a[j] = b[j]
         IN  IF a[i] < b[i] THEN -1 ELSE 1

\* a * 2^n and floor(a / 2^n).
BShl(a, n) ==
    IF a = <<>> \/ n = 0 THEN a
    ELSE
      LET w == n \div LimbBits
          r == n % LimbBits
      IN  BNorm([i \in 1..(Len(a) + w + 1) |->
                   IF i <= w THEN 0
                   ELSE ((Limb(a, i - w) * Pow2(r)) % Base)
                        + (Limb(a, i - w - 1) \div Pow2(LimbBits - r))]
                \o <<>>)

BShr(a, n) ==
    IF n = 0 THEN a
    ELSE IF n \div LimbBits >= Len(a) THEN <<>>
    ELSE
      LET w == n \div LimbBits
          r == n % LimbBits
      IN  BNorm([i \in 1..(Len(a) - w) |->
                   (Limb(a, i + w) \div Pow2(r))
                   + ((Limb(a, i + w + 1) % Pow2(r)) * Pow2(LimbBits - r))]
                \o <<>>)

\* Bit k of a (bit 0 is the least significant).
BBit(a, k) == (Limb(a, k \div LimbBits + 1) \div Pow2(k % LimbBits)) % 2

\* Whether the n least significant bits of a are all 0.
BLowZero(a, n) ==
    /\ \A i \in 1..Min2(n \div LimbBits, Len(a)) : a[i] = 0
    /\ Limb(a, n \div LimbBits + 1) % Pow2(n % LimbBits) = 0

\* The number of bits of a limb n.
IntBitLen(n) ==
    IF n = 0 THEN 0
    ELSE CHOOSE b \in 1..LimbBits : n < Pow2(b) /\ n >= Pow2(b - 1)

BBitLen(a) ==
    IF a = <<>> THEN 0 ELSE (Len(a) - 1) * LimbBits + IntBitLen(a[Len(a)])

BOdd(a) == a # <<>> /\ a[1] % 2 = 1

\* a * b for b of at most four limbs (a significand): column k sums the at
\* most four limb products of weight Base^(k-1), each sum below 2^30, and
\* the three limbs of every column sum are then added in place.
Col(a, b, k) ==
    Limb(a, k) * Limb(b, 1) + Limb(a, k - 1) * Limb(b, 2)
    + Limb(a, k - 2) * Limb(b, 3) + Limb(a, k - 3) * Limb(b, 4)

BMul(a, b) ==
    IF a = <<>> \/ b = <<>> THEN <<>>
    ELSE
      LET n   == Len(a) + Len(b)
          col == [k \in 1..n |-> Col(a, b, k)] \o <<>>
          lo  == BNorm([k \in 1..n |-> col[k] % Base] \o <<>>)
          mid == BNorm([k \in 1..n |-> IF k = 1 THEN 0
                                       ELSE (col[k - 1] \div Base) % Base] \o <<>>)
          hi  == BNorm([k \in 1..n |-> IF k <= 2 THEN 0
                                       ELSE col[k - 2] \div (Base * Base)] \o <<>>)
      IN  BAdd(BAdd(lo, mid), hi)

\* <<quotient, remainder>> of a by d, 0 < d <= Base: long division from the
\* most significant limb i down, with running remainder r and quotient q.
RECURSIVE BDivSmallRec(_, _, _, _, _)
BDivSmallRec(a, d, i, r, q) ==
    IF r < 0 \/ Len(q) < 0 THEN <<q, r>>
    ELSE IF i = 0 THEN <<q, r>>
    ELSE BDivSmallRec(a, d, i - 1, (r * Base + a[i]) % d,
                      <<(r * Base + a[i]) \div d>> \o q)

BDivSmall(a, d) == BNorm(BDivSmallRec(a, d, Len(a), 0, <<>>)[1])
BModSmall(a, d) == BDivSmallRec(a, d, Len(a), 0, <<>>)[2]

(***************************************************************************)
(* Exact dyadic rationals [s, m, e] = (-1)^s * m * 2^e: the real numbers   *)
(* the floats denote, and the exact results of their operations.           *)
(***************************************************************************)
Dy(s, m, e) == [s |-> s, m |-> m, e |-> e]

DNeg(u) == Dy(1 - u.s, u.m, u.e)
DAbs(u) == Dy(0, u.m, u.e)

DAddAt(u, v, e0) ==
    LET mu == BShl(u.m, u.e - e0)
        mv == BShl(v.m, v.e - e0)
    IN  IF u.s = v.s THEN Dy(u.s, BAdd(mu, mv), e0)
        ELSE IF BCmp(mu, mv) = 0 THEN Dy(0, <<>>, e0)
        ELSE IF BCmp(mu, mv) > 0 THEN Dy(u.s, BSub(mu, mv), e0)
        ELSE Dy(v.s, BSub(mv, mu), e0)

DAdd(u, v) ==
    IF u.m = <<>> THEN v
    ELSE IF v.m = <<>> THEN u
    ELSE DAddAt(u, v, Min2(u.e, v.e))

DSub(u, v) == DAdd(u, DNeg(v))

\* u * v for v with a significand of at most four limbs.
DMul(u, v) == Dy((u.s + v.s) % 2, BMul(u.m, v.m), u.e + v.e)

DScale(u, n) == Dy(u.s, u.m, u.e + n)

\* -1, 0, 1 as u < v, u = v, u > v.
DSign(u) == IF u.m = <<>> THEN 0 ELSE IF u.s = 1 THEN -1 ELSE 1
DCmp(u, v) == DSign(DSub(u, v))

DLe(u, v) == DCmp(u, v) <= 0
DLt(u, v) == DCmp(u, v) < 0
DEq(u, v) == DCmp(u, v) = 0

(***************************************************************************)
(* Python floats: IEEE-754 binary64, round to nearest, ties to even.       *)
(***************************************************************************)
Precision == 53
EMin == -1074
EMax == 971

Fin(s, m, e) == [k |-> "fin", s |-> s, m |-> m, e |-> e]
Inf(s) == [k |-> "inf", s |-> s, m |-> <<>>, e |-> 0]
NaN == [k |-> "nan", s |-> 0, m |-> <<>>, e |-> 0]

IsFin(u) == u.k = "fin"
IsNaN(u) == u.k = "nan"
IsInf(u) == u.k = "inf"
IsZero(u) == u.k = "fin" /\ u.m = <<>>

\* m / 2^d rounded to the nearest natural, ties to even (d > 0).
BShrRound(m, d) ==
    LET q  == BShr(m, d)
        up == BBit(m, d - 1) = 1 /\ (BOdd(q) \/ ~BLowZero(m, d - 1))
    IN  IF up THEN BAdd(q, <<1>>) ELSE q

\* The float nearest to the exact value (-1)^s * m * 2^e, ties to even.
\* The record of a finite float is canonical: e = EMin when it is zero or
\* subnormal, and a significand of exactly Precision bits otherwise.
RoundAt(s, m, e, e1) ==
    IF e1 <= e
    THEN IF e1 > EMax THEN Inf(s) ELSE Fin(s, BShl(m, e - e1), e1)
    ELSE LET q == BShrRound(m, e1 - e)
         IN  IF BBitLen(q) > Precision
             THEN (IF e1 + 1 > EMax THEN Inf(s) ELSE Fin(s, BShr(q, 1), e1 + 1))
             ELSE (IF e1 > EMax THEN Inf(s) ELSE Fin(s, q, e1))

Round(s, m, e) ==
    IF m = <<>> THEN Fin(s, <<>>, EMin)
    ELSE RoundAt(s, m, e, Max2(e + BBitLen(m) - Precision, EMin))

RoundDy(u) == Round(u.s, u.m, u.e)
ToDy(u) == Dy(u.s, u.m, u.e)

\* float + float.  A finite operand whose exponent lies Precision + 3 or more
\* below the other's is under a quarter of the other's unit in the last
\* place and leaves it unchanged; otherwise the exact sum is rounded.
FAdd(u, v) ==
    IF IsNaN(u) \/ IsNaN(v) THEN NaN
    ELSE IF IsInf(u) /\ IsInf(v) THEN (IF u.s = v.s THEN u ELSE NaN)
    ELSE IF IsInf(u) THEN u
    ELSE IF IsInf(v) THEN v
    ELSE IF u.m = <<>> /\ v.m = <<>>
         THEN Fin(IF u.s = 1 /\ v.s = 1 THEN 1 ELSE 0, <<>>, EMin)
    ELSE IF v.m = <<>> THEN u
    ELSE IF u.m = <<>> THEN v
    ELSE IF u.e - v.e >= Precision + 3 THEN u
    ELSE IF v.e - u.e >= Precision + 3 THEN v
    ELSE LET d == DAddAt(ToDy(u), ToDy(v), Min2(u.e, v.e))
         IN  IF d.m = <<>> THEN Fin(0, <<>>, EMin) ELSE RoundDy(d)

FNeg(u) == IF IsNaN(u) THEN NaN ELSE [u EXCEPT !.s = 1 - u.s]

\* float - float
FSub(u, v) == FAdd(u, FNeg(v))

\* float * float
FMul(u, v) ==
    IF IsNaN(u) \/ IsNaN(v) THEN NaN
    ELSE IF IsInf(u) \/ IsInf(v)
         THEN (IF IsZero(u) \/ IsZero(v) THEN NaN ELSE Inf((u.s + v.s) % 2))
    ELSE Round((u.s + v.s) % 2, BMul(u.m, v.m), u.e + v.e)

\* The float nearest to n / d for naturals n < 2^28 and 0 < d < Base: the
\* quotient is taken with 70 extra bits and a sticky bit for the remainder.
FromRatio(n, d) ==
    LET num == BShl(BFromInt(n), 5 * LimbBits)
        q   == BShl(BDivSmall(num, d), 1)
        st  == IF BModSmall(num, d) = 0 THEN <<>> ELSE <<1>>
    IN  Round(0, BAdd(q, st), 0 - 5 * LimbBits - 1)

\* int -> float, for |n| < 2^42.
FromInt(n) ==
    IF n < 0 THEN Round(1, BFromInt(0 - n), 0) ELSE Round(0, BFromInt(n), 0)

\* Python's ==, < and <= on floats.
FCmpMag(u, v) ==
    IF u.e < v.e THEN -1 ELSE IF u.e > v.e THEN 1 ELSE BCmp(u.m, v.m)

\* -1, 0, 1 for finite u < v, u = v, u > v (canonical records order by
\* exponent, then significand).
FCmp(u, v) ==
    IF u.m = <<>> /\ v.m = <<>> THEN 0
    ELSE IF u.m = <<>> THEN (IF v.s = 1 THEN 1 ELSE -1)
    ELSE IF v.m = <<>> THEN (IF u.s = 1 THEN -1 ELSE 1)
    ELSE IF u.s # v.s THEN (IF u.s = 1 THEN -1 ELSE 1)
    ELSE IF u.s = 0 THEN FCmpMag(u, v) ELSE FCmpMag(v, u)

FEq(u, v) ==
    \/ IsFin(u) /\ IsFin(v) /\ FCmp(u, v) = 0
    \/ IsInf(u) /\ IsInf(v) /\ u.s = v.s

FLt(u, v) ==
    IF IsNaN(u) \/ IsNaN(v) THEN FALSE
    ELSE IF IsInf(u) THEN u.s = 1 /\ ~(IsInf(v) /\ v.s = 1)
    ELSE IF IsInf(v) THEN v.s = 0
    ELSE FCmp(u, v) < 0

FLe(u, v) == FLt(u, v) \/ FEq(u, v)

(***************************************************************************)
(* The program: constants, callbacks and pure functions.                   *)
(***************************************************************************)

(***************************************************************************)
(* The state of a session and of the functions taken on their own.         *)
(***************************************************************************)
VARIABLES
    session_state,  \* st.session_state: the value under each slider's key
    lab_choice,     \* the lab selected in the radio, 1..5
    pc,             \* "callback", a place in the script run, or "idle"
    pending,        \* the running callback's assignments still to perform
    trigger,        \* the interaction that caused the current or last run
    local,          \* the script's names rf, rm, beta, expected_return, ...
    page,           \* the elements the current or last run has rendered
    counts,         \* what has run since the last interaction
    fresh,          \* session state and page at the end of the first run
    prev,           \* inputs and results on screen at the last radio / button use
    ev,             \* the evaluator on its own: inputs and result
    pair,           \* two calls of the evaluator: inputs and results
    cv              \* the curve generator on its own: inputs and curve

vars == <<session_state, lab_choice, pc, pending, trigger, local, page,
          counts, fresh, prev, ev, pair, cv>>

\* A name or session key that holds no value yet.
None == [k |-> "none", s |-> 0, m |-> <<>>, e |-> 0]

\* def reset_parameters / set_lab1_parameters .. set_lab5_parameters: the
\* three assignments to st.session_state each callback performs, in order.
reset_parameters_wrong_rf ==
    << <<"rf_slider", FromRatio(3, 100)>>, <<"rm_slider", FromRatio(8, 100)>>,
       <<"beta_slider", FromInt(1)>> >>

reset_parameters ==
    << <<"rf_slider", FromRatio(2, 100)>>, <<"rm_slider", FromRatio(8, 100)>>,
       <<"beta_slider", FromInt(1)>> >>

set_lab1_parameters ==
    << <<"rf_slider", FromRatio(2, 100)>>, <<"rm_slider", FromRatio(8, 100)>>,
       <<"beta_slider", FromRatio(15, 10)>> >>

set_lab2_parameters_rm_120 ==
    << <<"rf_slider", FromRatio(3, 100)>>, <<"rm_slider", FromRatio(12, 10)>>,
       <<"beta_slider", FromInt(2)>> >>

set_lab2_parameters ==
    << <<"rf_slider", FromRatio(3, 100)>>, <<"rm_slider", FromRatio(12, 100)>>,
       <<"beta_slider", FromInt(2)>> >>

set_lab3_parameters_short ==
    << <<"rf_slider", FromRatio(1, 100)>>, <<"rm_slider", FromRatio(5, 100)>> >>

set_lab3_parameters ==
    << <<"rf_slider", FromRatio(1, 100)>>, <<"rm_slider", FromRatio(5, 100)>>,
       <<"beta_slider", FromRatio(5, 10)>> >>

set_lab4_parameters_wrong_beta ==
    << <<"rf_slider", FromRatio(4, 100)>>, <<"rm_slider", FromRatio(10, 100)>>,
       <<"beta_slider", FromRatio(18, 10)>> >>

set_lab4_parameters ==
    << <<"rf_slider", FromRatio(4, 100)>>, <<"rm_slider", FromRatio(10, 100)>>,
       <<"beta_slider", FromRatio(8, 10)>> >>

set_lab5_parameters ==
    << <<"rf_slider", FromRatio(2, 100)>>, <<"rm_slider", FromRatio(6, 100)>>,
       <<"beta_slider", FromRatio(12, 10)>> >>

\* The callback st.button(..., on_click=...) registers for each button:
\* the reset button, and the button of lab c.
OnClick(button) ==
    IF button = "reset" THEN reset_parameters
    ELSE IF button = "lab1" THEN set_lab1_parameters
    ELSE IF button = "lab2" THEN set_lab2_parameters
    ELSE IF button = "lab3" THEN set_lab3_parameters
    ELSE IF button = "lab4" THEN set_lab4_parameters
    ELSE set_lab5_parameters

LabButton_first(c) == "lab1"

\* The button the if / elif / else chain on lab_choice renders: that of lab c.
LabButton(c) ==
    IF c = 1 THEN "lab1" ELSE IF c = 2 THEN "lab2" ELSE IF c = 3 THEN "lab3"
    ELSE IF c = 4 THEN "lab4" ELSE "lab5"

Labs == 1..5
Buttons == {"reset", "lab1", "lab2", "lab3", "lab4", "lab5"}

\* def calculate_capm(rf, rm, beta): expected_return = rf + beta * (rm - rf)
calculate_capm_no_premium(rf, rm, beta) == FAdd(rf, FMul(beta, rm))

calculate_capm_from_market(rf, rm, beta) == FAdd(rm, FMul(beta, FSub(rf, rm)))

calculate_capm_by_lab(rf, rm, beta) ==
    IF lab_choice = 1 THEN FAdd(rf, FMul(beta, FSub(rm, rf)))
    ELSE FAdd(rf, FMul(beta, rm))

calculate_capm(rf, rm, beta) == FAdd(rf, FMul(beta, FSub(rm, rf)))

\* st.slider(label, min_value, max_value, value, key=...): the three sliders.
Sliders ==
    [rf_slider   |-> [min_value |-> FromInt(0), max_value |-> FromRatio(1, 10),
                      value |-> FromRatio(2, 100)],
     rm_slider   |-> [min_value |-> FromInt(0), max_value |-> FromRatio(2, 10),
                      value |-> FromRatio(8, 100)],
     beta_slider |-> [min_value |-> FromInt(0), max_value |-> FromInt(3),
                      value |-> FromInt(1)]]

SliderKeys == {"rf_slider", "rm_slider", "beta_slider"}

\* What st.slider returns in a script run: the value session_state holds
\* under its key, or its default value while the key is not set.
slider_always_default(state, key) == Sliders[key].value

slider(state, key) ==
    IF state[key] = None THEN Sliders[key].value ELSE state[key]

\* What st.slider leaves in session_state under its key: the value the key
\* holds, or the slider's default value when the key is not set yet.
register_always_default(state, key) == Sliders[key].value

register(state, key) ==
    IF state[key] = None THEN Sliders[key].value ELSE state[key]

\* The positions the user drags each slider to: an end of its range.
SliderStops ==
    [rf_slider   |-> {Sliders.rf_slider.max_value},
     rm_slider   |-> {Sliders.rm_slider.min_value},
     beta_slider |-> {Sliders.beta_slider.max_value}]

\* A float formatted with two decimals, f"{x:.2f}": the sign and the number
\* of hundredths nearest to the float's exact value, ties to even.
NoText == [kind |-> "none", neg |-> FALSE, digits |-> <<>>]

FormatFixed2(u) ==
    IF IsNaN(u) THEN [kind |-> "nan", neg |-> FALSE, digits |-> <<>>]
    ELSE IF IsInf(u) THEN [kind |-> "inf", neg |-> u.s = 1, digits |-> <<>>]
    ELSE [kind |-> "num", neg |-> u.s = 1,
          digits |-> IF u.e >= 0 THEN BShl(BMul(u.m, <<100>>), u.e)
                     ELSE BShrRound(BMul(u.m, <<100>>), 0 - u.e)]

\* f"{x:.2%}": the float is multiplied by 100 as a float and then formatted
\* with two decimals.
FormatPercent(u) == FormatFixed2(FMul(u, FromInt(100)))

\* The text "n hundredths", for instance Text(1100) for 11.00.
Text(n) == [kind |-> "num", neg |-> FALSE, digits |-> BFromInt(n)]

\* np.linspace(start, stop, num) for integers start < stop: step is the
\* float (stop - start) / (num - 1), point p (from 0) is p * step + start,
\* and the last point is set to stop.
NumPoints == 100

linspace_open(start, stop, num) ==
    [p \in 1..num |->
        FAdd(FMul(FromInt(p - 1), FromRatio(stop - start, num)), FromInt(start))]
    \o <<>>

linspace(start, stop, num) ==
    [p \in 1..num |->
        IF p = num THEN FromInt(stop)
        ELSE FAdd(FMul(FromInt(p - 1), FromRatio(stop - start, num - 1)),
                  FromInt(start))]
    \o <<>>

\* betas = np.linspace(0, 3, 100)
betas == linspace(0, 3, NumPoints)

\* returns = rf + betas * (rm - rf), element by element
returns_no_premium(rf, rm) ==
    [p \in 1..Len(betas) |-> FAdd(rf, FMul(betas[p], rm))] \o <<>>

returns(rf, rm) ==
    LET premium == FSub(rm, rf)
    IN  [p \in 1..Len(betas) |-> FAdd(rf, FMul(betas[p], premium))] \o <<>>

(***************************************************************************)
(* The session.  A user interaction changes the widget's state, runs the   *)
(* button's callback to its end, and then runs the script from its top:    *)
(* sidebar (sliders), expected return, its text, the curve, the plot, the  *)
(* labs tab.  The next interaction is taken when the run has finished.     *)
(***************************************************************************)
NoLocals ==
    [rf |-> None, rm |-> None, beta |-> None, expected_return |-> None,
     betas |-> <<>>, returns |-> <<>>]

EmptyPage ==
    [expected_return |-> NoText, rf |-> NoText, rm |-> NoText, beta |-> NoText,
     line |-> <<>>, marker |-> <<>>, buttons |-> {}]

NoCounts == [calc |-> 0, text |-> 0, curve |-> 0, plot |-> 0]

NoFresh == [set |-> FALSE, session_state |-> <<>>, page |-> EmptyPage]

NoPrev ==
    [set |-> FALSE, session_state |-> <<>>, expected_return |-> None,
     betas |-> <<>>, returns |-> <<>>]

NoEval == [done |-> FALSE]
NoCurve == [done |-> FALSE]

\* A new session: no key in session_state, lab 1 selected (index=0), and
\* the first script run about to start.
SessionInit ==
    /\ session_state = [key \in SliderKeys |-> None]
    /\ lab_choice = 1
    /\ pc = "sidebar"
    /\ pending = <<>>
    /\ trigger = "start"
    /\ local = NoLocals
    /\ page = EmptyPage
    /\ counts = NoCounts
    /\ fresh = NoFresh
    /\ prev = NoPrev

Init == SessionInit /\ ev = NoEval /\ pair = NoEval /\ cv = NoCurve

\* A script run starts: no name is bound and no element is rendered yet.
StartRun ==
    /\ pc' = "sidebar"
    /\ local' = NoLocals
    /\ page' = EmptyPage
    /\ counts' = NoCounts

\* The inputs the page on screen was computed from, with the expected
\* return and the curve it shows.
Rendered ==
    [set |-> TRUE, session_state |-> session_state,
     expected_return |-> page.marker[2],
     betas |-> page.line[1], returns |-> page.line[2]]

\* The user drags a slider to another position.
MoveSlider(key, value) ==
    /\ pc = "idle"
    /\ session_state[key] # value
    /\ session_state' = [session_state EXCEPT ![key] = value]
    /\ trigger' = "slider"
    /\ prev' = NoPrev
    /\ StartRun
    /\ UNCHANGED <<lab_choice, pending, fresh, ev, pair, cv>>

\* The user selects another lab in the radio.
SelectLab(c) ==
    /\ pc = "idle"
    /\ lab_choice # c
    /\ lab_choice' = c
    /\ trigger' = "radio"
    /\ prev' = Rendered
    /\ StartRun
    /\ UNCHANGED <<session_state, pending, fresh, ev, pair, cv>>

\* The user clicks a button the page shows: its callback starts.
Click(button) ==
    /\ pc = "idle"
    /\ button \in page.buttons
    /\ pc' = "callback"
    /\ pending' = OnClick(button)
    /\ trigger' = button
    /\ prev' = Rendered
    /\ UNCHANGED <<session_state, lab_choice, local, page, counts, fresh, ev, pair, cv>>

\* The callback performs its next assignment to st.session_state.
CallbackAssign ==
    /\ pc = "callback"
    /\ pending # <<>>
    /\ session_state' = [session_state EXCEPT ![Head(pending)[1]] = Head(pending)[2]]
    /\ pending' = Tail(pending)
    /\ UNCHANGED <<lab_choice, pc, trigger, local, page, counts, fresh, prev, ev, pair, cv>>

\* The callback has returned: the script reruns.
CallbackReturn ==
    /\ pc = "callback"
    /\ pending = <<>>
    /\ StartRun
    /\ UNCHANGED <<session_state, lab_choice, pending, trigger, fresh, prev, ev, pair, cv>>

\* with st.sidebar: the reset button is rendered, then the three sliders;
\* each slider binds its name and, on the first run, sets its key to its
\* default.
RunSidebar ==
    /\ pc = "sidebar"
    /\ local' = [local EXCEPT !.rf = slider(session_state, "rf_slider"),
                              !.rm = slider(session_state, "rm_slider"),
                              !.beta = slider(session_state, "beta_slider")]
    /\ session_state' = [key \in SliderKeys |-> register(session_state, key)]
    /\ page' = [page EXCEPT !.buttons = @ \cup {"reset"}]
    /\ pc' = "calc"
    /\ UNCHANGED <<lab_choice, pending, trigger, counts, fresh, prev, ev, pair, cv>>

\* expected_return = calculate_capm(rf, rm, beta)
RunCalc ==
    /\ pc = "calc"
    /\ local' = [local EXCEPT !.expected_return =
                                  calculate_capm(local.rf, local.rm, local.beta)]
    /\ counts' = [counts EXCEPT !.calc = @ + 1]
    /\ pc' = "text"
    /\ UNCHANGED <<session_state, lab_choice, pending, trigger, page, fresh, prev, ev, pair, cv>>

\* st.success(f"... {expected_return:.2%}") and the key parameters
\* {rf:.2%}, {rm:.2%}, {beta:.2f}.
RunText ==
    /\ pc = "text"
    /\ page' = [page EXCEPT !.expected_return = FormatPercent(local.expected_return),
                            !.rf = FormatPercent(local.rf),
                            !.rm = FormatPercent(local.rm),
                            !.beta = FormatFixed2(local.beta)]
    /\ counts' = [counts EXCEPT !.text = @ + 1]
    /\ pc' = "curve"
    /\ UNCHANGED <<session_state, lab_choice, pending, trigger, local, fresh, prev, ev, pair, cv>>

\* betas = np.linspace(0, 3, 100); returns = rf + betas * (rm - rf)
RunCurve ==
    /\ pc = "curve"
    /\ local' = [local EXCEPT !.betas = betas,
                              !.returns = returns(local.rf, local.rm)]
    /\ counts' = [counts EXCEPT !.curve = @ + 1]
    /\ pc' = "plot"
    /\ UNCHANGED <<session_state, lab_choice, pending, trigger, page, fresh, prev, ev, pair, cv>>

\* ax.plot(betas, returns), ax.scatter(beta, expected_return), st.pyplot(fig)
RunPlot ==
    /\ pc = "plot"
    /\ page' = [page EXCEPT !.line = <<local.betas, local.returns>>,
                            !.marker = <<local.beta, local.expected_return>>]
    /\ counts' = [counts EXCEPT !.plot = @ + 1]
    /\ pc' = "labs"
    /\ UNCHANGED <<session_state, lab_choice, pending, trigger, local, fresh, prev, ev, pair, cv>>

\* The labs tab: the radio, and the button of the selected lab only.  The
\* run ends here and its names are gone.
RunLabs ==
    /\ pc = "labs"
    /\ page' = [page EXCEPT !.buttons = @ \cup {LabButton(lab_choice)}]
    /\ fresh' = IF fresh.set THEN fresh
                ELSE [set |-> TRUE, session_state |-> session_state, page |-> page']
    /\ local' = NoLocals
    /\ pc' = "idle"
    /\ UNCHANGED <<session_state, lab_choice, pending, trigger, counts, prev, ev, pair, cv>>

Next ==
    \/ \E key \in SliderKeys : \E value \in SliderStops[key] : MoveSlider(key, value)
    \/ \E c \in Labs : SelectLab(c)
    \/ \E button \in Buttons : Click(button)
    \/ CallbackAssign
    \/ CallbackReturn
    \/ RunSidebar
    \/ RunCalc
    \/ RunText
    \/ RunCurve
    \/ RunPlot
    \/ RunLabs

Spec == Init /\ [][Next]_vars

(***************************************************************************)
(* The evaluator and the curve generator on their own, over inputs that    *)
(* the sliders cannot produce as well as those they can.                   *)
(***************************************************************************)
EvalMaxTick == 4

\* Slider positions 0.00, 0.01, .. as floats.
TickRates == {FromRatio(t, 100) : t \in 0..EvalMaxTick}

Two53 == Fin(0, BShl(<<1>>, Precision - 1), 1)
Two1023 == Fin(0, BShl(<<1>>, Precision - 1), EMax)

\* 0.1, -0.05, 0.5, 2^53, 2^53 + 2, 2^1023, -2^1023 and 2^-1074.
WideRates ==
    {FromRatio(10, 100), FNeg(FromRatio(5, 100)), FromRatio(5, 10),
     Two53, Fin(0, BAdd(Two53.m, <<1>>), 1),
     Two1023, FNeg(Two1023), Fin(0, <<1>>, EMin)}

EvalRates == TickRates \cup WideRates

\* 0, 0.25, 1, 1.5, 3, -1 and 4.
EvalBetas ==
    {FromInt(0), FromRatio(25, 100), FromInt(1), FromRatio(15, 10), FromInt(3),
     FromInt(-1), FromInt(4)}

EvalInit ==
    /\ \E rf \in EvalRates : \E rm \in EvalRates : \E beta \in EvalBetas :
          ev = [done |-> FALSE, rf |-> rf, rm |-> rm, beta |-> beta, ret |-> None]
    /\ pair = NoEval
    /\ cv = NoCurve
    /\ SessionInit

\* One call of calculate_capm.
Evaluate ==
    /\ ~ev.done
    /\ ev' = [ev EXCEPT !.done = TRUE,
                        !.ret = calculate_capm(ev.rf, ev.rm, ev.beta)]
    /\ UNCHANGED <<session_state, lab_choice, pc, pending, trigger, local, page,
                   counts, fresh, prev, pair, cv>>

SpecEval == EvalInit /\ [][Evaluate]_vars

PairInit ==
    /\ \E rf \in EvalRates : \E rm \in EvalRates :
       \E beta1 \in EvalBetas : \E beta2 \in EvalBetas :
          pair = [done |-> FALSE, rf |-> rf, rm |-> rm, beta1 |-> beta1,
                  beta2 |-> beta2, ret1 |-> None, ret2 |-> None]
    /\ ev = NoEval
    /\ cv = NoCurve
    /\ SessionInit

\* Two calls of calculate_capm with the same rf and rm.
EvaluatePair ==
    /\ ~pair.done
    /\ pair' = [pair EXCEPT !.done = TRUE,
                            !.ret1 = calculate_capm(pair.rf, pair.rm, pair.beta1),
                            !.ret2 = calculate_capm(pair.rf, pair.rm, pair.beta2)]
    /\ UNCHANGED <<session_state, lab_choice, pc, pending, trigger, local, page,
                   counts, fresh, prev, ev, cv>>

SpecPair == PairInit /\ [][EvaluatePair]_vars

CurveInit ==
    /\ \E rf \in EvalRates : \E rm \in EvalRates :
          cv = [done |-> FALSE, rf |-> rf, rm |-> rm, betas |-> <<>>,
                returns |-> <<>>]
    /\ ev = NoEval
    /\ pair = NoEval
    /\ SessionInit

\* The two lines that make the curve's data.
Generate ==
    /\ ~cv.done
    /\ cv' = [cv EXCEPT !.done = TRUE, !.betas = betas,
                        !.returns = returns(cv.rf, cv.rm)]
    /\ UNCHANGED <<session_state, lab_choice, pc, pending, trigger, local, page,
                   counts, fresh, prev, ev, pair>>

SpecCurve == CurveInit /\ [][Generate]_vars

(***************************************************************************)
(* Properties.  The exact value of rf + beta * (rm - rf) is computed with  *)
(* unrounded dyadic arithmetic and compared with what the program returns. *)
(***************************************************************************)
ExactPremium(rf, rm, beta) == DMul(DSub(ToDy(rm), ToDy(rf)), ToDy(beta))
ExactCapm(rf, rm, beta) == DAdd(ToDy(rf), ExactPremium(rf, rm, beta))

\* |u| < 2^n
DBelowPow2(u, n) == u.m = <<>> \/ BBitLen(u.m) + u.e <= n

\* |rm - rf|, |beta * (rm - rf)| and |rf + beta * (rm - rf)| are all below
\* 2^1023, so that no step of the float computation overflows.
NoOverflow(rf, rm, beta) ==
    /\ DBelowPow2(DSub(ToDy(rm), ToDy(rf)), EMax + Precision - 1)
    /\ DBelowPow2(ExactPremium(rf, rm, beta), EMax + Precision - 1)
    /\ DBelowPow2(ExactCapm(rf, rm, beta), EMax + Precision - 1)

\* ret is a finite float within 2^-51 * (|rf| + |beta * (rm - rf)|) + 2^-1074
\* of the exact value.
WithinOf(ret, rf, premium) ==
    /\ IsFin(ret)
    /\ DLe(DAbs(DSub(ToDy(ret), DAdd(ToDy(rf), premium))),
           DAdd(DScale(DAdd(DAbs(ToDy(rf)), DAbs(premium)), 0 - Precision + 2),
                Dy(0, <<1>>, EMin)))

WithinTolerance(ret, rf, rm, beta) == WithinOf(ret, rf, ExactPremium(rf, rm, beta))

IsFloat(u) == IsFin(u) \/ IsInf(u) \/ IsNaN(u)

\* C1 as stated: for every rf, rm and beta, with no range restriction,
\* calculate_capm returns a value equal (within floating-point tolerance) to
\* rf + beta * (rm - rf).
C1_Original ==
    ev.done => WithinTolerance(ev.ret, ev.rf, ev.rm, ev.beta)

\* C1 amended: calculate_capm returns a float for every input and never
\* fails; when no step overflows (rm - rf, beta * (rm - rf) and the sum are
\* below 2^1023 in magnitude) the float is finite and within
\* 2^-51 * (|rf| + |beta * (rm - rf)|) + 2^-1074 of rf + beta * (rm - rf),
\* also for negative inputs, inputs outside the slider ranges and negative
\* results.
C1_EvaluatorTotal ==
    ev.done =>
        /\ IsFloat(ev.ret)
        /\ NoOverflow(ev.rf, ev.rm, ev.beta) =>
               WithinTolerance(ev.ret, ev.rf, ev.rm, ev.beta)

\* A negative, inexact result from a negative rf outside the slider range.
C1_Witness ==
    /\ ev.done
    /\ ev.rf = FNeg(FromRatio(5, 100))
    /\ NoOverflow(ev.rf, ev.rm, ev.beta)
    /\ ev.ret.s = 1 /\ ev.ret.m # <<>>
    /\ ~DEq(ToDy(ev.ret), ExactCapm(ev.rf, ev.rm, ev.beta))

\* The tuple (rf, rm, beta) of hundredths rf100, rm100 and tenths beta10
\* as session_state holds it.
StateOf(rf100, rm100, beta10) ==
    [rf_slider |-> FromRatio(rf100, 100), rm_slider |-> FromRatio(rm100, 100),
     beta_slider |-> FromRatio(beta10, 10)]

\* The documented tuple of each preset trigger.
Documented(button) ==
    IF button = "reset" THEN StateOf(2, 8, 10)
    ELSE IF button = "lab1" THEN StateOf(2, 8, 15)
    ELSE IF button = "lab2" THEN StateOf(3, 12, 20)
    ELSE IF button = "lab3" THEN StateOf(1, 5, 5)
    ELSE IF button = "lab4" THEN StateOf(4, 10, 8)
    ELSE StateOf(2, 6, 12)

\* C2: whatever the three inputs were, once the callback of a preset trigger
\* has returned session_state holds exactly that trigger's tuple: Reset
\* (0.02, 0.08, 1.0), Lab 1 (0.02, 0.08, 1.5), Lab 2 (0.03, 0.12, 2.0),
\* Lab 3 (0.01, 0.05, 0.5), Lab 4 (0.04, 0.10, 0.8), Lab 5 (0.02, 0.06, 1.2).
C2_PresetTuple ==
    (trigger \in Buttons /\ pending = <<>>) => session_state = Documented(trigger)

\* The Lab 4 callback has just returned, and the page of the run before it
\* still shows the three inputs it overwrote: 10.00%, 0.00% and 3.00.
C2_Witness ==
    /\ trigger = "lab4" /\ pc = "callback" /\ pending = <<>>
    /\ page.rf = Text(1000) /\ page.rm = Text(0) /\ page.beta = Text(300)
    /\ session_state = StateOf(4, 10, 8)

\* The places of a script run at which the sliders have been read.
AfterSidebar == {"calc", "text", "curve", "plot", "labs"}

\* The places at which the text of the run has been rendered.
AfterText == {"curve", "plot", "labs", "idle"}
AfterCalc == {"text", "curve", "plot", "labs"}

\* C3: a run never starts while a callback still has assignments to
\* perform, and the run a preset trigger causes reads all three of the
\* preset's values and renders all three: no recomputation or render sees
\* only one or two of them replaced.
C3_AtomicPreset ==
    /\ pc # "callback" => pending = <<>>
    /\ (trigger \in Buttons /\ pc \in AfterSidebar) =>
          /\ local.rf = Documented(trigger).rf_slider
          /\ local.rm = Documented(trigger).rm_slider
          /\ local.beta = Documented(trigger).beta_slider
    /\ (trigger \in Buttons /\ pc \in AfterText) =>
          /\ page.rf = FormatPercent(Documented(trigger).rf_slider)
          /\ page.rm = FormatPercent(Documented(trigger).rm_slider)
          /\ page.beta = FormatFixed2(Documented(trigger).beta_slider)

\* The run after the Lab 3 button has read rf = 0.01, rm = 0.05, beta = 0.5
\* and rendered them as 1.00%, 5.00% and 0.50.
C3_Witness ==
    /\ trigger = "lab3" /\ pc = "curve"
    /\ local.rf = FromRatio(1, 100) /\ local.rm = FromRatio(5, 100)
    /\ local.beta = FromRatio(5, 10)
    /\ page.rf = Text(100) /\ page.rm = Text(500) /\ page.beta = Text(50)

\* The float beta lies within 2^-51, one unit in the last place of the
\* largest beta, of the exact p-th of num evenly spaced values from 0 to 3.
EvenlySpacedAt(beta, p, num) ==
    /\ IsFin(beta)
    /\ DLe(DAbs(DSub(DMul(ToDy(beta), Dy(0, <<num - 1>>, 0)),
                     Dy(0, BFromInt(3 * (p - 1)), 0))),
           Dy(0, <<num - 1>>, 2 - Precision))

\* C4: for fixed rf and rm the curve has exactly 100 points; the betas start
\* at exactly 0, end at exactly 3, are strictly ascending and evenly spaced
\* (each within one unit in the last place of its exact position); and each
\* return is the float calculate_capm(rf, rm, that beta) returns, although
\* the returns are computed by an inline vector expression.
C4_Curve ==
    cv.done =>
        /\ Len(cv.betas) = 100 /\ Len(cv.returns) = 100
        /\ cv.betas[1] = FromInt(0) /\ cv.betas[100] = FromInt(3)
        /\ \A p \in 1..99 : FLt(cv.betas[p], cv.betas[p + 1])
        /\ \A p \in 1..100 : EvenlySpacedAt(cv.betas[p], p, 100)
        /\ \A p \in 1..100 :
              cv.returns[p] = calculate_capm(cv.rf, cv.rm, cv.betas[p])

\* The curve for rf = 0.02 and rm = 0.10: it starts at rf for beta 0 and
\* rises to its last point at beta 3.
C4_Witness ==
    /\ cv.done
    /\ cv.rf = FromRatio(2, 100) /\ cv.rm = FromRatio(10, 100)
    /\ Len(cv.returns) = 100
    /\ cv.returns[1] = cv.rf
    /\ FLt(cv.returns[99], cv.returns[100])
    /\ cv.betas[100] = FromInt(3)

\* C5 as stated: for every rf and rm, calculate_capm(rf, rm, 0) equals rf.
C5_Original ==
    (ev.done /\ ev.beta = FromInt(0)) => FEq(ev.ret, ev.rf)

\* C5 amended: for every rf and rm whose difference rm - rf does not
\* overflow the float range, calculate_capm(rf, rm, 0) equals rf.
C5_BetaZero ==
    (ev.done /\ ev.beta = FromInt(0) /\ IsFin(FSub(ev.rm, ev.rf))) =>
        FEq(ev.ret, ev.rf)

\* rf = 0.04, rm = 0.10, beta = 0 gives 0.04.
C5_Witness ==
    /\ ev.done /\ ev.beta = FromInt(0)
    /\ ev.rf = FromRatio(4, 100) /\ ev.rm = FromRatio(10, 100)
    /\ ev.ret = FromRatio(4, 100)

\* C6 as stated: for every rf and rm, calculate_capm(rf, rm, 1) equals rm.
C6_Original ==
    (ev.done /\ ev.beta = FromInt(1)) => FEq(ev.ret, ev.rm)

\* C6 amended: for every rf and rm for which no step overflows,
\* calculate_capm(rf, rm, 1) equals rm up to rounding: it is a finite float
\* within 2^-52 * (|rm| + |rm - rf|) of rm, and need not be rm itself.
C6_BetaOne ==
    (ev.done /\ ev.beta = FromInt(1) /\ NoOverflow(ev.rf, ev.rm, ev.beta)) =>
        /\ IsFin(ev.ret)
        /\ DLe(DAbs(DSub(ToDy(ev.ret), ToDy(ev.rm))),
               DScale(DAdd(DAbs(ToDy(ev.rm)),
                           DAbs(DSub(ToDy(ev.rm), ToDy(ev.rf)))),
                      1 - Precision))

\* rf = 0.03, rm = 0.01, beta = 1: the result is close to rm but is not rm.
C6_Witness ==
    /\ ev.done /\ ev.beta = FromInt(1)
    /\ ev.rf = FromRatio(3, 100) /\ ev.rm = FromRatio(1, 100)
    /\ ~FEq(ev.ret, ev.rm)
    /\ FLt(ev.rm, ev.ret)

\* C7 as stated: for fixed rf and rm and any beta1 < beta2, the result is
\* strictly greater at beta2 if rm > rf, strictly smaller if rm < rf, and
\* equal to rf at every beta if rm == rf.
C7_Original ==
    pair.done =>
        /\ (FLt(pair.beta1, pair.beta2) /\ FLt(pair.rf, pair.rm)) =>
              FLt(pair.ret1, pair.ret2)
        /\ (FLt(pair.beta1, pair.beta2) /\ FLt(pair.rm, pair.rf)) =>
              FLt(pair.ret2, pair.ret1)
        /\ FEq(pair.rf, pair.rm) =>
              FEq(pair.ret1, pair.rf) /\ FEq(pair.ret2, pair.rf)

\* The values the sliders give: multiples of 0.01 in [0, 0.1], [0, 0.2]
\* and [0, 3].
SliderPositions ==
    [rf_slider   |-> {FromRatio(t, 100) : t \in 0..10},
     rm_slider   |-> {FromRatio(t, 100) : t \in 0..20},
     beta_slider |-> {FromRatio(t, 100) : t \in 0..300}]

OnSliders(rf, rm, beta) ==
    /\ rf \in SliderPositions.rf_slider
    /\ rm \in SliderPositions.rm_slider
    /\ beta \in SliderPositions.beta_slider

\* C7 amended: for fixed rf and rm whose difference rm - rf does not
\* overflow and any beta1 < beta2, the result at beta2 is greater or equal
\* if rm > rf and smaller or equal if rm < rf (two betas can round to the
\* same result), and it equals rf at every beta if rm == rf; for the values
\* the sliders give the inequalities are strict.
C7_Monotone ==
    (pair.done /\ IsFin(FSub(pair.rm, pair.rf))) =>
        /\ (FLt(pair.beta1, pair.beta2) /\ FLt(pair.rf, pair.rm)) =>
              /\ FLe(pair.ret1, pair.ret2)
              /\ (OnSliders(pair.rf, pair.rm, pair.beta1)
                  /\ OnSliders(pair.rf, pair.rm, pair.beta2)) =>
                     FLt(pair.ret1, pair.ret2)
        /\ (FLt(pair.beta1, pair.beta2) /\ FLt(pair.rm, pair.rf)) =>
              /\ FLe(pair.ret2, pair.ret1)
              /\ (OnSliders(pair.rf, pair.rm, pair.beta1)
                  /\ OnSliders(pair.rf, pair.rm, pair.beta2)) =>
                     FLt(pair.ret2, pair.ret1)
        /\ FEq(pair.rf, pair.rm) =>
              FEq(pair.ret1, pair.rf) /\ FEq(pair.ret2, pair.rf)

\* rf = 2^53, rm = 2^53 + 2, beta1 = 0 < beta2 = 0.25: rm > rf and both
\* results are 2^53.
C7_Witness ==
    /\ pair.done
    /\ pair.rf = Two53 /\ FLt(pair.rf, pair.rm) /\ IsFin(FSub(pair.rm, pair.rf))
    /\ pair.beta1 = FromInt(0) /\ pair.beta2 = FromRatio(25, 100)
    /\ FEq(pair.ret1, pair.ret2)

\* C8: calculate_capm(0.02, 0.08, 1.5) is the float 0.11 and
\* calculate_capm(0.03, 0.12, 2.0) is the float 0.21, and the runs after the
\* Lab 1 and Lab 2 buttons compute and display these values: 11.00% and
\* 21.00%.
C8_Documented ==
    /\ (trigger = "lab1" /\ pc \in {"text", "curve", "plot", "labs"}) =>
          /\ local.rf = FromRatio(2, 100) /\ local.rm = FromRatio(8, 100)
          /\ local.beta = FromRatio(15, 10)
          /\ local.expected_return = FromRatio(11, 100)
    /\ (trigger = "lab1" /\ pc \in AfterText) =>
          page.expected_return = Text(1100)
    /\ (trigger = "lab2" /\ pc \in {"text", "curve", "plot", "labs"}) =>
          /\ local.rf = FromRatio(3, 100) /\ local.rm = FromRatio(12, 100)
          /\ local.beta = FromInt(2)
          /\ local.expected_return = FromRatio(21, 100)
    /\ (trigger = "lab2" /\ pc \in AfterText) =>
          page.expected_return = Text(2100)

\* The run after the Lab 2 button has computed 0.21 and shows 21.00%.
C8_Witness ==
    /\ trigger = "lab2" /\ pc = "curve"
    /\ local.expected_return = FromRatio(21, 100)
    /\ page.expected_return = Text(2100)

\* The expected return of the current session state.
CurrentReturn ==
    calculate_capm(session_state.rf_slider, session_state.rm_slider,
                   session_state.beta_slider)

\* C9 as stated: an interaction is followed by one recomputation of the
\* expected return and of the curve and then one render, in that order:
\* whatever the run has rendered, it had computed both before.
C9_Original ==
    (counts.text > 0 \/ counts.plot > 0) => (counts.calc = 1 /\ counts.curve = 1)

\* C9 amended: every interaction (slider move, radio selection, reset or
\* lab button) is followed, after its state change has been applied, by
\* exactly one script run.  The run computes the expected return once and
\* renders it, and only then computes the curve once and renders the plot:
\* each value is computed before it is rendered, but the text is rendered
\* before the curve is computed.  What a run renders is computed from the
\* current (rf, rm, beta), never from an earlier state.
C9_OneRunPerInteraction ==
    /\ pc = "idle" => counts = [calc |-> 1, text |-> 1, curve |-> 1, plot |-> 1]
    /\ counts.calc <= 1 /\ counts.text <= counts.calc
    /\ counts.curve <= counts.text /\ counts.plot <= counts.curve
    /\ pc \in AfterSidebar =>
          /\ local.rf = session_state.rf_slider
          /\ local.rm = session_state.rm_slider
          /\ local.beta = session_state.beta_slider
    /\ pc \in AfterText =>
          /\ counts.text = 1
          /\ page.expected_return = FormatPercent(CurrentReturn)
    /\ pc \in {"labs", "idle"} =>
          /\ counts.plot = 1
          /\ page.marker = <<session_state.beta_slider, CurrentReturn>>
          /\ Len(page.line[2]) = NumPoints
          /\ \A p \in {1, NumPoints} :
                page.line[2][p] = calculate_capm(session_state.rf_slider,
                                                 session_state.rm_slider,
                                                 page.line[1][p])

\* The beta slider was dragged to 3.0 from the defaults; the run has ended
\* and shows 20.00%, computed once from (0.02, 0.08, 3.0).
C9_Witness ==
    /\ trigger = "slider" /\ pc = "idle"
    /\ session_state = StateOf(2, 8, 30)
    /\ page.expected_return = Text(2000)
    /\ counts.calc = 1 /\ counts.plot = 1

\* C10: after any sequence of slider moves and lab presets, Reset and the
\* run it causes leave (rf, rm, beta) = (0.02, 0.08, 1.0), the sliders'
\* default values, and the session state and everything displayed from it
\* equal those at the end of the first run of the session.
C10_ResetIsFresh ==
    (trigger = "reset" /\ pc = "idle") =>
        /\ fresh.set
        /\ session_state = StateOf(2, 8, 10)
        /\ \A key \in SliderKeys : session_state[key] = Sliders[key].value
        /\ session_state = fresh.session_state
        /\ page.expected_return = fresh.page.expected_return
        /\ [page EXCEPT !.buttons = fresh.page.buttons] = fresh.page

\* Reset was pressed with lab 3 selected, and the run it caused has ended
\* showing 8.00%.
C10_Witness ==
    /\ trigger = "reset" /\ pc = "idle" /\ lab_choice = 3
    /\ fresh.set
    /\ page.expected_return = Text(800)
    /\ page.expected_return = fresh.page.expected_return

\* C11: calculate_capm and the curve are referentially transparent in the
\* session: when a run caused by a radio selection or a button computes
\* from the same (rf, rm, beta) as the page it replaces, whatever lab is
\* selected and whatever happened before, its expected return is identical
\* to the one that page showed; and when it computes the curve from the
\* same (rf, rm), the curve is identical to the one that page showed.
SameRates ==
    /\ prev.set
    /\ local.rf = prev.session_state.rf_slider
    /\ local.rm = prev.session_state.rm_slider

Inputs == [key \in SliderKeys |-> slider(session_state, key)]

Bound == <<local.rf, local.rm, local.beta>>

Running == {"sidebar", "calc", "text", "curve", "plot", "labs"}

C12_Step ==
    /\ pc \in Running => Inputs' = Inputs
    /\ (pc \in AfterSidebar /\ pc' \in AfterSidebar) => Bound' = Bound
    /\ (pc = "idle" /\ trigger' = "radio") => Inputs' = Inputs
    /\ (pc = "idle" /\ pc' = "callback") => Inputs' = Inputs
    /\ (pc = "idle" /\ trigger' = "slider")
           => Cardinality({key \in SliderKeys : Inputs'[key] # Inputs[key]}) = 1
    /\ pc = "callback"
           => \A key \in SliderKeys :
                  Inputs'[key] # Inputs[key]
                      => /\ pending # <<>>
                         /\ Head(pending) = <<key, Inputs'[key]>>

C12_InputsFrame == [][C12_Step]_vars

\* A run after a move of the beta slider has finished: it computed and
\* plotted once, and beta is where the move put it, the rates where they were.
C12_Witness ==
    /\ pc = "idle"
    /\ trigger = "slider"
    /\ counts.calc = 1 /\ counts.curve = 1 /\ counts.plot = 1
    /\ session_state.beta_slider = Sliders.beta_slider.max_value
    /\ session_state.rf_slider = Sliders.rf_slider.value
    /\ session_state.rm_slider = Sliders.rm_slider.value
    /\ page.marker[1] = Sliders.beta_slider.max_value

\* C13: in every reachable state of the session the inputs are inside the
\* slider ranges, 0.0 <= rf <= 0.1, 0.0 <= rm <= 0.2, 0.0 <= beta <= 3.0;
\* every assignment of every callback, and every assignment a running
\* callback still has to make, writes a value inside the range of the
\* slider it is written to; and the plotted point's beta lies between the
\* first and the last beta of the plotted curve, which are 0 and 3.
Range ==
    [rf_slider   |-> <<FromInt(0), FromRatio(1, 10)>>,
     rm_slider   |-> <<FromInt(0), FromRatio(2, 10)>>,
     beta_slider |-> <<FromInt(0), FromInt(3)>>]

InRange(key, value) ==
    /\ IsFin(value)
    /\ FLe(Range[key][1], value)
    /\ FLe(value, Range[key][2])

AllInRange(c) == \A p \in 1..Len(c) : InRange(c[p][1], c[p][2])

C13_InputsInRange ==
    /\ \A key \in SliderKeys :
           /\ InRange(key, Inputs[key])
           /\ Sliders[key].min_value = Range[key][1]
           /\ Sliders[key].max_value = Range[key][2]
    /\ \A button \in Buttons : AllInRange(OnClick(button))
    /\ AllInRange(pending)
    /\ pc \in AfterSidebar
           => /\ InRange("rf_slider", local.rf)
              /\ InRange("rm_slider", local.rm)
              /\ InRange("beta_slider", local.beta)
    /\ page.marker # <<>>
           => /\ page.line[1][1] = FromInt(0)
              /\ page.line[1][Len(page.line[1])] = FromInt(3)
              /\ FLe(page.line[1][1], page.marker[1])
              /\ FLe(page.marker[1], page.line[1][Len(page.line[1])])

\* Lab 2's preset has been applied and plotted: rm is 0.12 and the point
\* is at beta 2.0 on a curve over [0, 3].
C13_Witness ==
    /\ pc = "idle"
    /\ trigger = "lab2"
    /\ session_state.rm_slider = FromRatio(12, 100)
    /\ page.marker[1] = FromInt(2)
    /\ Len(page.line[1]) = NumPoints

\* C14: the preset button of lab k exists, and can be clicked, only while
\* lab k is the lab selected in the radio: a finished render shows the
\* reset button and exactly one lab button, the selected lab's; no run ever
\* shows another lab's button; the session starts with lab 1 selected; the
\* reset button can be clicked at every finished render; and the run a
\* radio selection causes finds rf, rm and beta as they were.
LabName == <<"lab1", "lab2", "lab3", "lab4", "lab5">>

C14_SelectedLabButtonOnly ==
    /\ lab_choice \in 1..5
    /\ trigger = "start" => lab_choice = 1
    /\ page.buttons \subseteq {"reset", LabName[lab_choice]}
    /\ pc \in AfterSidebar => "reset" \in page.buttons
    /\ pc = "idle" => page.buttons = {"reset", LabName[lab_choice]}
    /\ \A k \in 1..5 :
           ENABLED Click(LabName[k]) <=> (pc = "idle" /\ lab_choice = k)
    /\ ENABLED Click("reset") <=> pc = "idle"
    /\ (trigger = "radio" /\ pc # "idle")
           => prev.set /\ Inputs = prev.session_state
    /\ (trigger = "radio" /\ pc = "idle")
           => prev.set /\ session_state = prev.session_state

\* Lab 4 has been selected after lab 2's preset was applied: the page
\* shows the reset button and lab 4's button, and the inputs are lab 2's.
C14_Witness ==
    /\ pc = "idle"
    /\ trigger = "radio"
    /\ lab_choice = 4
    /\ page.buttons = {"reset", "lab4"}
    /\ session_state = prev.session_state
    /\ session_state.rm_slider = FromRatio(12, 100)

==============================================================================
